---- MODULE Spec2Model ----
(***************************************************************************)
(* Model of the incremental video-processing pipeline of                   *)
(* google-search-agent.py: the transcript store (save_transcript,          *)
(* load_transcript_data) on a file system, and process_video_smart, which  *)
(* orchestrates resolver, store, transcript fetcher and embedding client;  *)
(* of the batch driver process_playlist; of the question loop of main with *)
(* answer_question_with_gemini; and of ingest_text and                     *)
(* get_or_create_corpus of rag_manager.py.                                 *)
(*                                                                         *)
(* Python values are encoded as follows.  Text is a TLA+ string and the    *)
(* Python None of a text variable is the string None.  A title is a        *)
(* sequence of one-character strings, because save_transcript rewrites it  *)
(* character by character into a file name; the None title is NoneTitle.   *)
(* A dict is a function whose DOMAIN is its set of keys, so a key that was *)
(* never written is absent from the DOMAIN.  A file name is the sequence   *)
(* of the pieces its f-string concatenates.  The file system is a function *)
(* from the names of the files that exist to their JSON content.           *)
(***************************************************************************)
EXTENDS Integers, Sequences, FiniteSets, TLC

VARIABLES
    files,          \* transcript files: file name -> record; DOMAIN = files that exist
    embFiles,       \* embeddings_<id>.json files: video id -> content
    apiKey,         \* GOOGLE_API_KEY is set in the environment
    now,            \* the clock behind datetime.now()
    pc,             \* position of the program
    url,            \* process_video_smart: argument url
    force_reembed,  \* process_video_smart: argument force_reembed
    do_embedding,   \* process_video_smart: argument do_embedding
    video_title,    \* process_video_smart: argument/local video_title
    video_id,       \* process_video_smart: local video_id
    existing_data,  \* process_video_smart: local existing_data
    transcript,     \* process_video_smart: local transcript
    embeddings,     \* process_video_smart: local embeddings
    ret,            \* value returned by the last process_video_smart that returned
    log,            \* calls made by the running (or last) process_video_smart, in order
    files0,         \* the transcript files as they were when that invocation started
    prev,           \* how the invocation before that one ended
    lastSave,       \* the last direct save_transcript call and what it returned
    lastLoad,       \* what the last direct load_transcript_data call returned
    merged,         \* per video id, the last-write-wins merge of the direct save calls
    nSaves,         \* number of direct save_transcript calls so far
    pl_pc,          \* process_playlist: position
    pl_args,        \* process_playlist: arguments url, force_reembed, do_embedding
    video_ids,      \* process_playlist: local video_ids
    pl_i,           \* process_playlist: loop counter i of enumerate(video_ids, 1)
    processed_videos, \* process_playlist: local processed_videos
    failed_videos,  \* process_playlist: local failed_videos
    sleeps,         \* for every time.sleep of process_playlist, the i it ran at
    runs,           \* what every returned process_video_smart of the playlist did
    qa_pc,          \* main: position in the question loop ("off" outside of it)
    transcript_text, \* main: transcript_data.get('transcript', ''), a sequence of characters
    question,       \* main: the stripped line read by input()
    context,        \* answer_question_with_gemini: transcript_text as placed in the prompt
    answer,         \* main: the value answer_question_with_gemini returned
    asked,          \* number of input() calls of the loop so far
    qa_event,       \* what the last step of the loop met: the input and the generation
    rag_pc,         \* RAGManager.ingest_text: position
    text_content,   \* ingest_text: argument text_content, a sequence of characters
    chunk_size,     \* ingest_text: argument chunk_size
    chunks,         \* ingest_text: local chunks
    submitted,      \* the chunks sent to create_chunk so far, in order
    count,          \* ingest_text: local count
    chunk_errors,   \* number of create_chunk calls that raised
    ingest_ret,     \* value returned by ingest_text
    corpora,        \* the remote service: number of corpora per display name and creator
    corpus_call     \* the last get_or_create_corpus call: what it met and did

storeVars == <<files, embFiles, apiKey, now>>
procVars  == <<pc, url, force_reembed, do_embedding, video_title, video_id,
               existing_data, transcript, embeddings, ret, log, files0, prev>>
apiVars   == <<lastSave, lastLoad, merged, nSaves>>
playVars  == <<pl_pc, pl_args, video_ids, pl_i, processed_videos, failed_videos, sleeps,
               runs>>
\* the state process_video_smart and the transcript store do not touch
qaVars    == <<qa_pc, transcript_text, question, context, answer, asked, qa_event>>
ragVars   == <<rag_pc, text_content, chunk_size, chunks, submitted, count,
               chunk_errors, ingest_ret, corpora, corpus_call>>
restVars  == <<playVars, qaVars, ragVars>>
vars      == <<storeVars, procVars, apiVars, restVars>>

----------------------------------------------------------------------------
(* Bounds of the model *)

\* the model follows the program until datetime.now() has been read MaxNow - 1 times
MaxNow == 4

\* direct calls of save_transcript the model follows
MaxSaves == 2

VideoIds == {"v1", "v2"}

----------------------------------------------------------------------------
(* Python values *)

None == "None"
NoRecord == [none |-> TRUE]
NoneTitle == <<"None">>
EmptyDict == <<>>
UnknownTitle == <<"U","n","k","n","o","w","n"," ","T","i","t","l","e">>

\* truth value of a text, as `if transcript:` takes it
TruthyText(s) == s # None /\ s # ""
\* truth value of a title, as `if video_title` takes it
TruthyTitle(t) == t # NoneTitle /\ t # <<>>
\* truth value of a dict, as `if existing_data:` takes it
TruthyDict(d) == d # NoRecord /\ DOMAIN d # {}

\* dict.get(key, default)
Get(d, key, default) == IF key \in DOMAIN d THEN d[key] ELSE default
\* d[key] = value
SetKey(d, key, value) == (key :> value) @@ d
\* d.update(u)
Update(d, u) == u @@ d

----------------------------------------------------------------------------
(* Transcript store: save_transcript and load_transcript_data *)

WordChars ==
    {"a","b","c","d","e","f","g","h","i","j","k","l","m","n","o","p","q","r","s",
     "t","u","v","w","x","y","z","A","B","C","D","E","F","G","H","I","J","K","L",
     "M","N","O","P","Q","R","S","T","U","V","W","X","Y","Z","0","1","2","3","4",
     "5","6","7","8","9","_"}
SpaceChars == {" ", "\t", "\n"}

\* length to which save_transcript cuts the cleaned title
MaxTitleLen == 50

RECURSIVE Join(_)
\* the string made of the characters of a sequence
Join(chars) == IF chars = <<>> THEN "" ELSE Head(chars) \o Join(Tail(chars))

\* re.sub(r'[^\w\s-]', '', title)
StripTitle(title) ==
    SelectSeq(title, LAMBDA c : c \in WordChars \cup SpaceChars \cup {"-"})

\* .replace(' ', '_')
ReplaceSpaces(title) ==
    [i \in 1..Len(title) |-> IF title[i] = " " THEN "_" ELSE title[i]]

\* s[:n]
Prefix(s, n) == SubSeq(s, 1, IF Len(s) < n THEN Len(s) ELSE n)

\* clean_title of save_transcript
CleanTitle(title) == Join(Prefix(ReplaceSpaces(StripTitle(title)), MaxTitleLen))

\* the file save_transcript writes
TranscriptFileName(vid, title) ==
    IF TruthyTitle(title) /\ title # UnknownTitle
    THEN "transcripts/transcript_" \o vid \o "_" \o CleanTitle(title) \o ".json"
    ELSE "transcripts/transcript_" \o vid \o ".json"

\* the file load_transcript_data reads
LoadFileName(vid) == "transcript_" \o vid \o ".json"

\* the record save_transcript starts from when the file does not exist
NewRecord(vid, u, title) ==
    [video_id |-> vid, url |-> u,
     title |-> IF TruthyTitle(title) THEN title ELSE UnknownTitle]

\* MergeRecord with the update of the transcript left out: only the status is merged
MergeRecordStatusOnly(data, tr, status_updates, clock) ==
    LET withStatus == IF "status" \notin DOMAIN data
                      THEN SetKey(data, "status", EmptyDict)
                      ELSE data
    IN  IF DOMAIN status_updates # {}
        THEN [withStatus EXCEPT !["status"] = Update(@, status_updates)]
        ELSE withStatus

\* the record save_transcript writes over the record `data` it starts from
MergeRecord(data, tr, status_updates, clock) ==
    LET withText == IF TruthyText(tr)
                    THEN SetKey(SetKey(data, "transcript", tr), "timestamp", clock)
                    ELSE data
        withStatus == IF "status" \notin DOMAIN withText
                      THEN SetKey(withText, "status", EmptyDict)
                      ELSE withText
    IN  IF DOMAIN status_updates # {}
        THEN [withStatus EXCEPT !["status"] = Update(@, status_updates)]
        ELSE withStatus

\* save_transcript(video_id, transcript, url, status_updates, video_title) on the
\* file system fs: the value returned and the file system left behind.  status_updates
\* None is the empty dict (both are false at `if status_updates:`).  io = "error" is an
\* exception of the file operations, raised before the file is opened for writing.
SaveTranscript(fs, vid, tr, u, status_updates, title, clock, io) ==
    LET filename == TranscriptFileName(vid, title)
        data == IF filename \in DOMAIN fs THEN fs[filename] ELSE NewRecord(vid, u, title)
    IN  IF io = "ok"
        THEN [filename |-> filename,
              files |-> (filename :> MergeRecord(data, tr, status_updates, clock)) @@ fs]
        ELSE [filename |-> None, files |-> fs]

\* the clock after save_transcript: datetime.now() is read when a transcript is given
ClockAfterSave(clock, tr) == IF TruthyText(tr) THEN clock + 1 ELSE clock

\* load_transcript_data(video_id) on the file system fs
LoadTranscriptData(fs, vid, io) ==
    IF io = "ok" /\ LoadFileName(vid) \in DOMAIN fs
    THEN fs[LoadFileName(vid)]
    ELSE NoRecord

IOOutcomes == {"ok", "error"}

----------------------------------------------------------------------------
(* Video resolver: extract_video_id.  A URL is the record of the parts the  *)
(* function looks at: the host, the path (as the sequence of its pieces)    *)
(* and the value of the query parameter v (None when there is none).        *)

WatchUrl(vid) == [host |-> "youtube.com", path |-> <<"/", "watch">>, v |-> vid]
ShortUrl(vid) == [host |-> "youtu.be", path |-> <<"/", vid>>, v |-> None]
EmbedUrl(vid) == [host |-> "youtube.com", path |-> <<"/", "embed", "/", vid>>, v |-> None]
\* a playlist page: no video id in it
ListUrl == [host |-> "youtube.com", path |-> <<"/", "playlist">>, v |-> None]
\* https://youtu.be/ : the path holds nothing after the slash
BareShortUrl == [host |-> "youtu.be", path |-> <<"/">>, v |-> None]
NoUrl == [host |-> "", path |-> <<>>, v |-> None]

Urls == {WatchUrl("v1"), EmbedUrl("v2"), ListUrl, BareShortUrl}

RECURSIVE LStrip(_, _)
\* path.lstrip(c)
LStrip(path, c) ==
    IF path # <<>> /\ Head(path) = c THEN LStrip(Tail(path), c) ELSE path

\* the ids of the model stand for the 11-character ids the patterns accept
MatchesIdPattern(piece) == piece \in VideoIds

\* extract_video_id(url)
ExtractVideoId(u) ==
    IF u.host = "youtu.be" THEN Join(LStrip(u.path, "/"))
    ELSE IF u.host = "youtube.com" /\ u.v # None THEN u.v
    ELSE IF /\ u.host = "youtube.com"
            /\ Len(u.path) = 4
            /\ SubSeq(u.path, 1, 3) = <<"/", "embed", "/">>
            /\ MatchesIdPattern(u.path[4])
         THEN u.path[4]
    ELSE None

----------------------------------------------------------------------------
(* Inputs and outcomes of the collaborators *)

TitleA == <<"a", " ", "b">>
TitleB == <<"a", "?", "_", "b", "!">>

\* titles the callers pass as video_title: main passes "Unknown Title", and
\* process_playlist the title of the playlist entry or "Unknown Title"
ArgTitles == {UnknownTitle, TitleB}

\* get_video_transcript(video_id) returns (transcript, title): no transcript with
\* the unknown or the real title, an empty text, or a text
FetchResults ==
    [transcript : {None, "", "hello"}, title : {UnknownTitle, TitleA}]

\* the embedding client answers with a vector or raises
EmbedOutcomes == {"ok", "error"}
NoneVec == <<"None">>
Embedding(text) == <<"embedding", text>>
TruthyVec(e) == e # NoneVec /\ e # <<>>

\* embed_transcript_with_gemini(transcript_text)
EmbedTranscript(key, text, outcome) ==
    IF ~key THEN NoneVec
    ELSE IF outcome = "ok" THEN Embedding(text)
    ELSE NoneVec

\* records left in the working directory, where load_transcript_data reads them
LegacyRecords(vid) ==
    LET base == [video_id |-> vid, url |-> WatchUrl(vid), title |-> UnknownTitle]
        text == SetKey(SetKey(base, "transcript", "old"), "timestamp", 0)
    IN  { SetKey(text, "status", [transcript_extracted |-> TRUE]),
          SetKey(text, "status", [transcript_extracted |-> TRUE, embedded |-> TRUE,
                                  last_embedded |-> 0]),
          SetKey(base, "status", [embedded |-> TRUE, last_embedded |-> 0]) }

----------------------------------------------------------------------------
(* process_video_smart, one action per step between two calls it makes *)

\* status = existing_data.get('status', {})
Status(existing) == Get(existing, "status", EmptyDict)
\* `if status.get(key)`
Flag(status, key) == Get(status, key, FALSE) = TRUE

\* the record process_video_smart found is fully processed and is returned as is
FullyProcessed(existing, force) ==
    /\ Flag(Status(existing), "transcript_extracted")
    /\ Flag(Status(existing), "embedded")
    /\ ~force

\* the condition under which process_video_smart calls the embedding client once it
\* holds a transcript: in the branch of a found record, and in the branch of a new video
EmbeddingNeeded(existing, force, doEmb) ==
    IF TruthyDict(existing)
    THEN doEmb /\ (~Flag(Status(existing), "embedded") \/ force)
    ELSE doEmb

\* the values process_video_smart returns
Failure == [data |-> NoRecord, id |-> None]
Result(data, vid) == [data |-> data, id |-> vid]
NoResult == [data |-> NoRecord, id |-> "-"]

\* what the next invocation's claims need of the invocation before it: whether it
\* returned after a successful fetch, successful saves and a successful embedding
\* ("processed"), or was interrupted between the save of the fetched transcript and
\* the embedding call ("interrupted"), and with which arguments
NoPrev == [how |-> "other", url |-> NoUrl, video_title |-> NoneTitle]
Ops(l, op) == SelectSeq(l, LAMBDA e : e.op = op)
AllSaved(l) == \A i \in 1..Len(l) : l[i].op = "save" => l[i].filename # None
Fetched(l) == \E i \in 1..Len(l) : l[i].op = "fetch" /\ TruthyText(l[i].transcript)
Embedded(l) == \E i \in 1..Len(l) : l[i].op = "embed" /\ l[i].ok
PrevOf(how, at, l) ==
    IF how = "returned" /\ Fetched(l) /\ Embedded(l) /\ AllSaved(l)
          /\ Len(Ops(l, "save")) = 2
    THEN [how |-> "processed", url |-> l[1].url, video_title |-> l[1].video_title]
    ELSE IF how = "crashed" /\ at = "embed" /\ Fetched(l) /\ AllSaved(l)
    THEN [how |-> "interrupted", url |-> l[1].url, video_title |-> l[1].video_title]
    ELSE NoPrev

\* process_video_smart(url, force_reembed, do_embedding, video_title) is called:
\* the video id is extracted from the URL
Call(u, force, doEmb, title) ==
    /\ pc = "idle"
    /\ url' = u
    /\ force_reembed' = force
    /\ do_embedding' = doEmb
    /\ video_title' = title
    /\ video_id' = ExtractVideoId(u)
    /\ log' = <<[op |-> "call", url |-> u, force_reembed |-> force,
                 do_embedding |-> doEmb, video_title |-> title]>>
    /\ files0' = files
    /\ IF TruthyText(video_id')
       THEN pc' = "load" /\ ret' = NoResult
       ELSE pc' = "done" /\ ret' = Failure
    /\ UNCHANGED <<storeVars, apiVars, restVars, existing_data, transcript, embeddings, prev>>

\* existing_data = load_transcript_data(video_id), and the decision on it.  Inside
\* process_video_smart the model follows the reads that raise no I/O error: a read
\* that raises returns None, as the read of a missing file does.
Load ==
    /\ pc = "load"
    /\ LET found == LoadTranscriptData(files, video_id, "ok") IN
        /\ existing_data' = found
        /\ log' = Append(log, [op |-> "load", video_id |-> video_id])
        /\ IF TruthyDict(found) /\ FullyProcessed(found, force_reembed)
           THEN pc' = "done" /\ ret' = Result(found, video_id)
                /\ UNCHANGED transcript
           ELSE IF TruthyDict(found) /\ Flag(Status(found), "transcript_extracted")
           THEN /\ transcript' = Get(found, "transcript", None)
                /\ pc' = IF EmbeddingNeeded(found, force_reembed, do_embedding)
                         THEN "embed" ELSE "final"
                /\ UNCHANGED ret
           ELSE pc' = "fetch" /\ UNCHANGED <<transcript, ret>>
    /\ UNCHANGED <<storeVars, apiVars, restVars, url, force_reembed, do_embedding, video_title,
                   video_id, embeddings, files0, prev>>

\* Fetch with `if not transcript` replaced by `if transcript is None`: an empty
\* transcript is taken for a fetched one
FetchEmptyAccepted(r) ==
    /\ pc = "fetch"
    /\ log' = Append(log, [op |-> "fetch", video_id |-> video_id,
                           transcript |-> r.transcript, title |-> r.title])
    /\ video_title' = IF TruthyTitle(r.title) /\ r.title # UnknownTitle
                      THEN r.title ELSE video_title
    /\ IF r.transcript # None
       THEN transcript' = r.transcript /\ pc' = "save_transcript" /\ UNCHANGED ret
       ELSE pc' = "done" /\ ret' = Failure /\ UNCHANGED transcript
    /\ UNCHANGED <<storeVars, apiVars, restVars, url, force_reembed, do_embedding, video_id,
                   existing_data, embeddings, files0, prev>>

\* Fetch with the save of the fetched transcript left out: the embedding comes first
FetchThenEmbed(r) ==
    /\ pc = "fetch"
    /\ log' = Append(log, [op |-> "fetch", video_id |-> video_id,
                           transcript |-> r.transcript, title |-> r.title])
    /\ video_title' = IF TruthyTitle(r.title) /\ r.title # UnknownTitle
                      THEN r.title ELSE video_title
    /\ IF TruthyText(r.transcript)
       THEN transcript' = r.transcript /\ pc' = "embed" /\ UNCHANGED ret
       ELSE pc' = "done" /\ ret' = Failure /\ UNCHANGED transcript
    /\ UNCHANGED <<storeVars, apiVars, restVars, url, force_reembed, do_embedding,
                   video_id, existing_data, embeddings, files0, prev>>

\* transcript, fetched_title = get_video_transcript(video_id)
Fetch(r) ==
    /\ pc = "fetch"
    /\ log' = Append(log, [op |-> "fetch", video_id |-> video_id,
                           transcript |-> r.transcript, title |-> r.title])
    /\ video_title' = IF TruthyTitle(r.title) /\ r.title # UnknownTitle
                      THEN r.title ELSE video_title
    /\ IF TruthyText(r.transcript)
       THEN transcript' = r.transcript /\ pc' = "save_transcript" /\ UNCHANGED ret
       ELSE pc' = "done" /\ ret' = Failure /\ UNCHANGED transcript
    /\ UNCHANGED <<storeVars, apiVars, restVars, url, force_reembed, do_embedding, video_id,
                   existing_data, embeddings, files0, prev>>

\* save_transcript(video_id, transcript, url, {'transcript_extracted': True}, video_title)
SaveExtracted(io) ==
    /\ pc = "save_transcript"
    /\ now < MaxNow
    /\ LET updates == [transcript_extracted |-> TRUE]
           saved == SaveTranscript(files, video_id, transcript, url, updates,
                                   video_title, now, io) IN
        /\ files' = saved.files
        /\ now' = IF io = "ok" THEN ClockAfterSave(now, transcript) ELSE now
        /\ log' = Append(log, [op |-> "save", video_id |-> video_id,
                               transcript |-> transcript, status_updates |-> updates,
                               video_title |-> video_title,
                               filename |-> saved.filename])
    /\ pc' = IF EmbeddingNeeded(existing_data, force_reembed, do_embedding)
             THEN "embed" ELSE "final"
    /\ UNCHANGED <<embFiles, apiKey, apiVars, restVars, url, force_reembed, do_embedding,
                   video_title, video_id, existing_data, transcript, embeddings, ret,
                   files0, prev>>

\* embeddings = embed_transcript_with_gemini(transcript)
Embed(outcome) ==
    /\ pc = "embed"
    /\ embeddings' = EmbedTranscript(apiKey, transcript, outcome)
    /\ log' = Append(log, [op |-> "embed", text |-> transcript,
                           ok |-> TruthyVec(embeddings')])
    /\ pc' = IF TruthyVec(embeddings') THEN "save_embeddings" ELSE "final"
    /\ UNCHANGED <<storeVars, apiVars, restVars, url, force_reembed, do_embedding, video_title,
                   video_id, existing_data, transcript, ret, files0, prev>>

\* save_embeddings_to_file(video_id, embeddings)
SaveEmbeddings(io) ==
    /\ pc = "save_embeddings"
    /\ now < MaxNow
    /\ embFiles' = IF io = "ok"
                   THEN (video_id :> [video_id |-> video_id, embeddings |-> embeddings,
                                      created_at |-> now]) @@ embFiles
                   ELSE embFiles
    /\ now' = now + 1
    /\ log' = Append(log, [op |-> "save_embeddings", video_id |-> video_id, io |-> io])
    /\ pc' = "mark_embedded"
    /\ UNCHANGED <<files, apiKey, apiVars, restVars, url, force_reembed, do_embedding, video_title,
                   video_id, existing_data, transcript, embeddings, ret, files0, prev>>

\* save_transcript(video_id, None, url, {'embedded': True, 'last_embedded': now}, video_title)
MarkEmbedded(io) ==
    /\ pc = "mark_embedded"
    /\ now < MaxNow
    /\ LET updates == [embedded |-> TRUE, last_embedded |-> now]
           saved == SaveTranscript(files, video_id, None, url, updates, video_title,
                                   now, io) IN
        /\ files' = saved.files
        /\ log' = Append(log, [op |-> "save", video_id |-> video_id,
                               transcript |-> None, status_updates |-> updates,
                               video_title |-> video_title,
                               filename |-> saved.filename])
    /\ now' = now + 1
    /\ pc' = "final"
    /\ UNCHANGED <<embFiles, apiKey, apiVars, restVars, url, force_reembed, do_embedding,
                   video_title, video_id, existing_data, transcript, embeddings, ret,
                   files0, prev>>

\* final_data = load_transcript_data(video_id); return final_data, video_id
Final ==
    /\ pc = "final"
    /\ ret' = Result(LoadTranscriptData(files, video_id, "ok"), video_id)
    /\ log' = Append(log, [op |-> "load", video_id |-> video_id])
    /\ pc' = "done"
    /\ UNCHANGED <<storeVars, apiVars, restVars, url, force_reembed, do_embedding, video_title,
                   video_id, existing_data, transcript, embeddings, files0, prev>>

\* the locals of process_video_smart are gone once it is left
LocalsCleared ==
    /\ url' = NoUrl
    /\ force_reembed' = FALSE
    /\ do_embedding' = FALSE
    /\ video_title' = NoneTitle
    /\ video_id' = None
    /\ existing_data' = NoRecord
    /\ transcript' = None
    /\ embeddings' = NoneVec
    /\ ret' = NoResult
    /\ log' = <<>>
    /\ files0' = <<>>

\* the caller takes the returned value; the program is ready for the next call
Return ==
    /\ pc = "done"
    /\ pc' = "idle"
    /\ prev' = PrevOf("returned", pc, log)
    /\ LocalsCleared
    /\ UNCHANGED <<storeVars, apiVars, restVars>>

\* the process is interrupted inside process_video_smart; what is on disk stays
Crash ==
    /\ pc \notin {"idle", "done"}
    /\ pc' = "idle"
    /\ prev' = PrevOf("crashed", pc, log)
    /\ LocalsCleared
    /\ UNCHANGED <<storeVars, apiVars, restVars>>

----------------------------------------------------------------------------
(* The store called directly: save_transcript and load_transcript_data with  *)
(* arguments of the caller's choice                                          *)

TranscriptArgs == {None, "", "hello", "world"}
StatusUpdateArgs ==
    {EmptyDict, [transcript_extracted |-> TRUE], [embedded |-> TRUE],
     [embedded |-> FALSE]}
SaveTitles == {NoneTitle, UnknownTitle, TitleA, TitleB}

NoSave == [video_id |-> None, filename |-> None]
NoLoad == [video_id |-> None, data |-> NoRecord]
\* the merge of no call at all
NoMerge == [calls |-> 0, partial |-> TRUE, fields |-> EmptyDict, status |-> EmptyDict]

\* a call that gives a transcript and no status, or a status and no transcript
PartialCall(tr, updates) ==
    \/ TruthyText(tr) /\ DOMAIN updates = {}
    \/ tr = None /\ DOMAIN updates # {}

\* the last-write-wins merge m extended by one more call
MergeCall(m, tr, updates, clock) ==
    [calls |-> m.calls + 1,
     partial |-> m.partial /\ PartialCall(tr, updates),
     fields |-> IF TruthyText(tr)
                THEN [transcript |-> tr, timestamp |-> clock]
                ELSE m.fields,
     status |-> [k \in DOMAIN updates \cup DOMAIN m.status |->
                    IF k \in DOMAIN updates THEN updates[k] ELSE m.status[k]]]

\* a caller runs save_transcript(vid, tr, u, updates, title)
SaveCall(vid, tr, u, updates, title, io) ==
    /\ pc = "idle"
    /\ nSaves < MaxSaves
    /\ now < MaxNow
    /\ LET saved == SaveTranscript(files, vid, tr, u, updates, title, now, io) IN
        /\ files' = saved.files
        /\ lastSave' = [video_id |-> vid, filename |-> saved.filename]
    /\ now' = IF io = "ok" THEN ClockAfterSave(now, tr) ELSE now
    /\ merged' = IF io = "ok"
                 THEN [merged EXCEPT ![vid] = MergeCall(@, tr, updates, now)]
                 ELSE merged
    /\ nSaves' = nSaves + 1
    /\ UNCHANGED <<embFiles, apiKey, procVars, lastLoad, restVars>>

\* a caller runs load_transcript_data(vid)
LoadCall(vid, io) ==
    /\ pc = "idle"
    /\ lastLoad' = [video_id |-> vid, data |-> LoadTranscriptData(files, vid, io)]
    /\ UNCHANGED <<storeVars, procVars, lastSave, merged, nSaves, restVars>>

----------------------------------------------------------------------------
(* process_playlist: the batch driver over the videos of a playlist *)

\* ids a playlist page may list
PlaylistIds == VideoIds \cup {"v3"}

\* videos of the longest playlist the model follows
MaxVideos == 3

\* a playlist URL is the value of its query parameter list (None when there is none)
PlaylistUrl(list) == [list |-> list]
PlaylistUrls == {PlaylistUrl("PL1"), PlaylistUrl(None)}

\* extract_playlist_id(url)
ExtractPlaylistId(u) == u.list

\* what get_playlist_video_ids(playlist_id) may return: the ids of the page without
\* duplicates, in the order of the page; the empty list when the page cannot be read
ResolvedLists ==
    {ids \in UNION {[1..n -> PlaylistIds] : n \in 0..MaxVideos} :
        \A a, b \in DOMAIN ids : a # b => ids[a] # ids[b]}

\* video_url of process_playlist; extract_video_id reads its parameter v
VideoUrl(vid, playlist_id) == WatchUrl(vid)

FetchFailedIn(l) == \E k \in 1..Len(l) : l[k].op = "fetch" /\ ~TruthyText(l[k].transcript)
EmbedFailedIn(l) == \E k \in 1..Len(l) : l[k].op = "embed" /\ ~l[k].ok

\* what one returned process_video_smart, with the calls l, did for video vid
RunOf(vid, l) ==
    [id |-> vid,
     fetch |-> IF Fetched(l) THEN "ok" ELSE IF FetchFailedIn(l) THEN "failed" ELSE "none",
     embed |-> IF Embedded(l) THEN "ok" ELSE IF EmbedFailedIn(l) THEN "failed" ELSE "none"]

NoArgs == [url |-> PlaylistUrl(None), force_reembed |-> FALSE, do_embedding |-> FALSE]

\* process_playlist(url, force_reembed, do_embedding) is called: the playlist id is
\* extracted and the video ids are resolved; ids is what the resolver returns
PlaylistCall(u, force, doEmb, ids) ==
    /\ pl_pc = "idle"
    /\ pc = "idle"
    /\ pl_args' = [url |-> u, force_reembed |-> force, do_embedding |-> doEmb]
    /\ video_ids' = IF ExtractPlaylistId(u) = None THEN <<>> ELSE ids
    /\ pl_pc' = IF video_ids' = <<>> THEN "done" ELSE "loop"
    /\ pl_i' = 0
    /\ processed_videos' = <<>>
    /\ failed_videos' = <<>>
    /\ sleeps' = <<>>
    /\ runs' = <<>>
    /\ UNCHANGED <<storeVars, procVars, apiVars, qaVars, ragVars>>

\* PlaylistNext with `if i > 1` left out: a sleep before the first video too
PlaylistNextAlwaysSleeps ==
    /\ pl_pc = "loop"
    /\ IF pl_i < Len(video_ids)
       THEN /\ pl_i' = pl_i + 1
            /\ sleeps' = Append(sleeps, pl_i')
            /\ pl_pc' = "invoke"
       ELSE /\ pl_pc' = "done"
            /\ UNCHANGED <<pl_i, sleeps>>
    /\ UNCHANGED <<storeVars, procVars, apiVars, qaVars, ragVars, pl_args, video_ids,
                   processed_videos, failed_videos, runs>>

\* `for i, video_id in enumerate(video_ids, 1)`: the next video, after a sleep when it
\* is not the first, or the end of the loop and the return
PlaylistNext ==
    /\ pl_pc = "loop"
    /\ IF pl_i < Len(video_ids)
       THEN /\ pl_i' = pl_i + 1
            /\ sleeps' = IF pl_i' > 1 THEN Append(sleeps, pl_i') ELSE sleeps
            /\ pl_pc' = "invoke"
       ELSE /\ pl_pc' = "done"
            /\ UNCHANGED <<pl_i, sleeps>>
    /\ UNCHANGED <<storeVars, procVars, apiVars, qaVars, ragVars, pl_args, video_ids,
                   processed_videos, failed_videos, runs>>

\* process_video_smart(video_url, force_reembed, do_embedding, video_title), with
\* the title video_titles holds for the video
PlaylistInvoke(title) ==
    /\ pl_pc = "invoke"
    /\ Call(VideoUrl(video_ids[pl_i], ExtractPlaylistId(pl_args.url)),
            pl_args.force_reembed, pl_args.do_embedding, title)

\* process_video_smart has returned: `if transcript_data and processed_video_id`
PlaylistCollect ==
    /\ pl_pc = "invoke"
    /\ pc = "done"
    /\ IF TruthyDict(ret.data) /\ TruthyText(ret.id)
       THEN /\ processed_videos' = Append(processed_videos, ret.id)
            /\ UNCHANGED failed_videos
       ELSE /\ failed_videos' = Append(failed_videos, video_ids[pl_i])
            /\ UNCHANGED processed_videos
    /\ runs' = Append(runs, RunOf(video_ids[pl_i], log))
    /\ pl_pc' = "loop"
    /\ pc' = "idle"
    /\ prev' = PrevOf("returned", pc, log)
    /\ LocalsCleared
    /\ UNCHANGED <<storeVars, apiVars, qaVars, ragVars, pl_args, video_ids, pl_i, sleeps>>

----------------------------------------------------------------------------
(* The question loop of main and answer_question_with_gemini.  Here a text  *)
(* is a sequence of one-character strings, so that its length and its       *)
(* slices are those of the Python string.                                   *)

\* max_context_length of answer_question_with_gemini
max_context_length == 4000

\* the longest transcript of the model has max_context_length + MaxOver characters
MaxOver == 4

\* questions the model follows in one session
MaxQuestions == 3

Marker == <<".", ".", ".">>
Letters == <<"a", "b", "c">>

\* a transcript of n characters; with dots, its last three characters are full stops
TextOf(n, dots) ==
    [k \in 1..n |-> IF dots /\ k > n - 3 THEN "." ELSE Letters[(k % 3) + 1]]

TextLens == {0, 1} \cup ((max_context_length - 1)..(max_context_length + MaxOver))
QATexts == {TextOf(n, dots) : n \in TextLens, dots \in BOOLEAN}

\* ContextOf without the marker
ContextWithoutMarker(text) ==
    IF Len(text) > max_context_length THEN Prefix(text, max_context_length) ELSE text

\* the transcript_text answer_question_with_gemini places in the prompt
ContextOf(text) ==
    IF Len(text) > max_context_length
    THEN Prefix(text, max_context_length) \o Marker
    ELSE text

WhiteSpace == {" ", "\t", "\n"}
RECURSIVE RStrip(_)
RStrip(line) ==
    IF line # <<>> /\ line[Len(line)] \in WhiteSpace
    THEN RStrip(SubSeq(line, 1, Len(line) - 1)) ELSE line
RECURSIVE LStripWhite(_)
LStripWhite(line) ==
    IF line # <<>> /\ Head(line) \in WhiteSpace THEN LStripWhite(Tail(line)) ELSE line
\* str.strip()
Strip(line) == LStripWhite(RStrip(line))

LowerOf == [c \in {"Q", "U", "I", "T", "E", "X"} |->
              CASE c = "Q" -> "q" [] c = "U" -> "u" [] c = "I" -> "i"
                [] c = "T" -> "t" [] c = "E" -> "e" [] c = "X" -> "x"]
\* str.lower(), on the letters of the model
Lower(line) ==
    [k \in 1..Len(line) |-> IF line[k] \in DOMAIN LowerOf THEN LowerOf[line[k]] ELSE line[k]]

QuitWords == {<<"q", "u", "i", "t">>, <<"e", "x", "i", "t">>, <<"q">>}

\* lines the user may type
Lines ==
    { <<"q">>, <<"Q">>, <<" ", "q", "u", "i", "t", " ">>, <<"E", "x", "i", "t">>,
      <<>>, <<" ">>, <<"q", "?">>, <<"h", "i">>, <<" ", "h", "i", "\n">> }

\* what input() does: it returns a line, or raises EOFError or KeyboardInterrupt
Inputs == {[kind |-> "line", line |-> l] : l \in Lines}
            \cup {[kind |-> "eof", line |-> <<>>], [kind |-> "interrupt", line |-> <<>>]}

\* what model.generate_content does: it returns a response or raises
Generations == {[ok |-> TRUE, text |-> <<" ", "y", "e", "s", "\n">>],
                [ok |-> FALSE, text |-> <<>>]}

NoContext == <<"None">>
NoAnswer == [kind |-> "none", text |-> <<>>]
NoEvent == [kind |-> "none", generation |-> "none"]

\* answer_question_with_gemini(question, transcript_text): the context placed in the
\* prompt (NoContext when no prompt is built) and the value returned
AnswerQuestion(key, text, g) ==
    IF ~key THEN [context |-> NoContext, answer |-> [kind |-> "no_key", text |-> <<>>]]
    ELSE IF g.ok
    THEN [context |-> ContextOf(text), answer |-> [kind |-> "answer", text |-> Strip(g.text)]]
    ELSE [context |-> ContextOf(text), answer |-> [kind |-> "error", text |-> <<>>]]

\* main has a record from process_video_smart and enters the question loop
EnterLoop(text) ==
    /\ pc = "idle"
    /\ pl_pc = "idle"
    /\ qa_pc = "off"
    /\ qa_pc' = "prompt"
    /\ transcript_text' = text
    /\ UNCHANGED <<storeVars, procVars, apiVars, playVars, ragVars, question, context, answer,
                   asked, qa_event>>

\* question = input(...).strip() and the tests on it
ReadQuestion(in) ==
    /\ qa_pc = "prompt"
    /\ asked < MaxQuestions
    /\ asked' = asked + 1
    /\ IF in.kind # "line"
       THEN /\ qa_pc' = "ended"
            /\ qa_event' = [kind |-> in.kind, generation |-> "none"]
            /\ UNCHANGED question
       ELSE /\ question' = Strip(in.line)
            /\ IF Lower(question') \in QuitWords
               THEN qa_pc' = "ended" /\ qa_event' = [kind |-> "quit", generation |-> "none"]
               ELSE IF question' = <<>>
               THEN qa_pc' = "prompt" /\ qa_event' = [kind |-> "empty", generation |-> "none"]
               ELSE IF transcript_text = <<>>
               THEN qa_pc' = "prompt"
                    /\ qa_event' = [kind |-> "no_transcript", generation |-> "none"]
               ELSE qa_pc' = "answering"
                    /\ qa_event' = [kind |-> "question", generation |-> "none"]
    /\ UNCHANGED <<storeVars, procVars, apiVars, playVars, ragVars, transcript_text, context, answer>>

\* Answer with the `except Exception` of answer_question_with_gemini left out: the
\* exception of the generation leaves the loop
AnswerUncaught(g) ==
    /\ qa_pc = "answering"
    /\ LET r == AnswerQuestion(apiKey, transcript_text, g) IN
        /\ context' = r.context
        /\ IF apiKey /\ ~g.ok
           THEN /\ qa_pc' = "ended"
                /\ qa_event' = [kind |-> "question", generation |-> "raised"]
                /\ UNCHANGED answer
           ELSE /\ qa_pc' = "prompt"
                /\ answer' = r.answer
                /\ qa_event' = [kind |-> "question",
                                generation |-> IF apiKey THEN "returned" ELSE "none"]
    /\ UNCHANGED <<storeVars, procVars, apiVars, playVars, ragVars, transcript_text, question, asked>>

\* answer = answer_question_with_gemini(question, transcript_text), printed; the loop
\* goes on to the next input()
Answer(g) ==
    /\ qa_pc = "answering"
    /\ LET r == AnswerQuestion(apiKey, transcript_text, g) IN
        /\ context' = r.context
        /\ answer' = r.answer
    /\ qa_event' = [kind |-> "question",
                    generation |-> IF ~apiKey THEN "none"
                                   ELSE IF g.ok THEN "returned" ELSE "raised"]
    /\ qa_pc' = "prompt"
    /\ UNCHANGED <<storeVars, procVars, apiVars, playVars, ragVars, transcript_text, question, asked>>

\* KeyboardInterrupt while the answer is awaited: `except KeyboardInterrupt: break`
InterruptAnswer ==
    /\ qa_pc = "answering"
    /\ qa_pc' = "ended"
    /\ qa_event' = [kind |-> "interrupt", generation |-> "none"]
    /\ UNCHANGED <<storeVars, procVars, apiVars, playVars, ragVars, transcript_text, question,
                   context, answer, asked>>

----------------------------------------------------------------------------
(* RAGManager of rag_manager.py: ingest_text and get_or_create_corpus *)

\* default chunk_size of ingest_text
DefaultChunkSize == 2000

\* characters of the longest text the model ingests
MaxTextLen == 5

\* chunk sizes the model passes besides the default
MaxChunkSize == 3

RagTexts == UNION {[1..n -> {"a", "b"}] : n \in 0..MaxTextLen}
ChunkSizes == (1..MaxChunkSize) \cup {DefaultChunkSize}

\* text_content[a:b]
Slice(text, a, b) ==
    SubSeq(text, a + 1, IF b < Len(text) THEN b ELSE Len(text))

RECURSIVE ChunksShort(_, _, _)
\* ChunksFrom with the range stopped one chunk early: the last chunk is left out
ChunksShort(text, size, from) ==
    IF from + size >= Len(text) THEN <<>>
    ELSE <<Slice(text, from, from + size)>> \o ChunksShort(text, size, from + size)

RECURSIVE ChunksFrom(_, _, _)
\* the chunks of `for i in range(from, len(text_content), chunk_size)`
ChunksFrom(text, size, from) ==
    IF from >= Len(text) THEN <<>>
    ELSE <<Slice(text, from, from + size)>> \o ChunksFrom(text, size, from + size)

\* ingest_text(document_name, text_content, chunk_size) is called and builds its chunks
IngestCall(text, size) ==
    /\ rag_pc = "idle"
    /\ text_content' = text
    /\ chunk_size' = size
    /\ chunks' = ChunksFrom(text, size, 0)
    /\ submitted' = <<>>
    /\ count' = 0
    /\ chunk_errors' = 0
    /\ rag_pc' = "create_chunks"
    /\ UNCHANGED <<storeVars, procVars, apiVars, playVars, qaVars, ingest_ret, corpora,
                   corpus_call>>

\* one turn of `for chunk in chunks`: create_chunk returns or raises
CreateChunk(outcome) ==
    /\ rag_pc = "create_chunks"
    /\ Len(submitted) < Len(chunks)
    /\ submitted' = Append(submitted, chunks[Len(submitted) + 1])
    /\ IF outcome = "ok"
       THEN count' = count + 1 /\ UNCHANGED chunk_errors
       ELSE chunk_errors' = chunk_errors + 1 /\ UNCHANGED count
    /\ UNCHANGED <<storeVars, procVars, apiVars, playVars, qaVars, rag_pc, text_content,
                   chunk_size, chunks, ingest_ret, corpora, corpus_call>>

\* return count
IngestReturn ==
    /\ rag_pc = "create_chunks"
    /\ Len(submitted) = Len(chunks)
    /\ ingest_ret' = count
    /\ rag_pc' = "returned"
    /\ UNCHANGED <<storeVars, procVars, apiVars, playVars, qaVars, text_content,
                   chunk_size, chunks, submitted, count, chunk_errors, corpora,
                   corpus_call>>

\* page_size of the list_corpora request
ListPageSize == 10

\* the remote service of the model holds up to ListPageSize + MaxExtra corpora
MaxExtra == 1

\* display names this client asks for, and all display names on the service
DisplayNames == {"Video Library", "Lectures"}
AllNames == DisplayNames \cup {"Other"}
Creators == {"client", "other"}
CorpusKinds == [display_name : AllNames, by : Creators]

Kind(name, by) == [display_name |-> name, by |-> by]
RECURSIVE SumOver(_, _)
SumOver(f, S) ==
    IF S = {} THEN 0
    ELSE LET x == CHOOSE y \in S : TRUE IN f[x] + SumOver(f, S \ {x})
\* number of corpora on the service, and of those with a display name
Total(cs) == SumOver(cs, CorpusKinds)
Named(cs, name) == cs[Kind(name, "client")] + cs[Kind(name, "other")]

NoCorpora == [k \in CorpusKinds |-> 0]
NoCorpusCall == [display_name |-> None, listed |-> "none", found |-> FALSE,
                 create_requested |-> FALSE, existed |-> FALSE, ret |-> None]

\* response.corpora holds one page of at most ListPageSize corpora, in an order the
\* service chooses: a corpus called name can be on it when there is one, and can be
\* missing from it when the other corpora fill the page
CanBeOnPage(cs, name) == Named(cs, name) > 0
CanBeOffPage(cs, name) ==
    \/ Named(cs, name) = 0
    \/ Total(cs) - Named(cs, name) >= ListPageSize

\* get_or_create_corpus(display_name): the listing returns a page or raises, and so
\* does the creation when it is reached
GetOrCreateCorpus(name, listing, onPage, creation) ==
    /\ rag_pc = "idle"
    /\ Total(corpora) < ListPageSize + MaxExtra
    /\ listing = "ok" /\ onPage => CanBeOnPage(corpora, name)
    /\ listing = "ok" /\ ~onPage => CanBeOffPage(corpora, name)
    /\ LET found == listing = "ok" /\ onPage
           created == ~found /\ creation = "ok" IN
        /\ corpora' = IF created
                      THEN [corpora EXCEPT ![Kind(name, "client")] = @ + 1]
                      ELSE corpora
        /\ corpus_call' = [display_name |-> name, listed |-> listing, found |-> found,
                           create_requested |-> ~found,
                           existed |-> Named(corpora, name) > 0,
                           ret |-> IF found \/ created THEN name ELSE None]
    /\ UNCHANGED <<storeVars, procVars, apiVars, playVars, qaVars, rag_pc, text_content,
                   chunk_size, chunks, submitted, count, chunk_errors, ingest_ret>>

\* another client of the service creates a corpus
OtherClientCreates(name) ==
    /\ rag_pc = "idle"
    /\ Total(corpora) < ListPageSize + MaxExtra
    /\ corpora' = [corpora EXCEPT ![Kind(name, "other")] = @ + 1]
    /\ UNCHANGED <<storeVars, procVars, apiVars, playVars, qaVars, rag_pc, text_content,
                   chunk_size, chunks, submitted, count, chunk_errors, ingest_ret,
                   corpus_call>>

----------------------------------------------------------------------------
(* Specifications *)

\* video ids that may have a transcript_<id>.json file in the working directory
LegacyIds == {"v1"}

\* the working directory may hold transcript_<id>.json files; transcripts/ is empty
InitFiles ==
    LET names(S) == {LoadFileName(vid) : vid \in S}
        legacy == UNION {LegacyRecords(vid) : vid \in LegacyIds}
    IN  { f \in UNION {[names(S) -> legacy] : S \in SUBSET LegacyIds} :
            \A vid \in LegacyIds :
                LoadFileName(vid) \in DOMAIN f =>
                    f[LoadFileName(vid)] \in LegacyRecords(vid) }

Init ==
    /\ files \in InitFiles
    /\ embFiles = <<>>
    /\ apiKey \in BOOLEAN
    /\ now = 1
    /\ pc = "idle"
    /\ url = NoUrl
    /\ force_reembed = FALSE
    /\ do_embedding = FALSE
    /\ video_title = NoneTitle
    /\ video_id = None
    /\ existing_data = NoRecord
    /\ transcript = None
    /\ embeddings = NoneVec
    /\ ret = NoResult
    /\ log = <<>>
    /\ files0 = <<>>
    /\ prev = NoPrev
    /\ lastSave = NoSave
    /\ lastLoad = NoLoad
    /\ merged = [vid \in VideoIds |-> NoMerge]
    /\ nSaves = 0
    /\ pl_pc = "idle"
    /\ pl_args = NoArgs
    /\ video_ids = <<>>
    /\ pl_i = 0
    /\ processed_videos = <<>>
    /\ failed_videos = <<>>
    /\ sleeps = <<>>
    /\ runs = <<>>
    /\ qa_pc = "off"
    /\ transcript_text = <<>>
    /\ question = <<>>
    /\ context = NoContext
    /\ answer = NoAnswer
    /\ asked = 0
    /\ qa_event = NoEvent
    /\ rag_pc = "idle"
    /\ text_content = <<>>
    /\ chunk_size = DefaultChunkSize
    /\ chunks = <<>>
    /\ submitted = <<>>
    /\ count = 0
    /\ chunk_errors = 0
    /\ ingest_ret = 0
    /\ corpora = NoCorpora
    /\ corpus_call = NoCorpusCall

CallStep == \E u \in Urls, force \in BOOLEAN, doEmb \in BOOLEAN, title \in ArgTitles :
                Call(u, force, doEmb, title)
FetchStep == \E r \in FetchResults : Fetch(r)
SaveExtractedStep == \E io \in IOOutcomes : SaveExtracted(io)
EmbedStep == \E outcome \in EmbedOutcomes : Embed(outcome)
SaveEmbeddingsStep == \E io \in IOOutcomes : SaveEmbeddings(io)
MarkEmbeddedStep == \E io \in IOOutcomes : MarkEmbedded(io)

\* the program: calls of process_video_smart, one after the other, and interrupts
Next ==
    \/ CallStep
    \/ Load
    \/ FetchStep
    \/ SaveExtractedStep
    \/ EmbedStep
    \/ SaveEmbeddingsStep
    \/ MarkEmbeddedStep
    \/ Final
    \/ Return
    \/ Crash

Spec == Init /\ [][Next]_vars

\* the program started in a directory that holds no transcript file at all
InitEmpty == Init /\ files = <<>>

SpecEmpty == InitEmpty /\ [][Next]_vars

SaveCallStep ==
    \E vid \in VideoIds, tr \in TranscriptArgs, updates \in StatusUpdateArgs,
       title \in SaveTitles, io \in IOOutcomes :
        SaveCall(vid, tr, WatchUrl(vid), updates, title, io)
LoadCallStep == \E vid \in VideoIds, io \in IOOutcomes : LoadCall(vid, io)

\* the store alone: direct calls of save_transcript and load_transcript_data
NextStore ==
    \/ SaveCallStep
    \/ LoadCallStep

\* the embedding client plays no part in the store
InitStore == Init /\ apiKey

SpecStore == InitStore /\ [][NextStore]_vars

PlaylistCallStep ==
    \E u \in PlaylistUrls, force \in BOOLEAN, doEmb \in BOOLEAN, ids \in ResolvedLists :
        PlaylistCall(u, force, doEmb, ids)
PlaylistInvokeStep == \E title \in ArgTitles : PlaylistInvoke(title)

\* one run of process_playlist
NextPlaylist ==
    \/ PlaylistCallStep
    \/ PlaylistNext
    \/ PlaylistInvokeStep
    \/ Load
    \/ FetchStep
    \/ SaveExtractedStep
    \/ EmbedStep
    \/ SaveEmbeddingsStep
    \/ MarkEmbeddedStep
    \/ Final
    \/ PlaylistCollect

SpecPlaylist == Init /\ [][NextPlaylist]_vars

\* process_playlist(url, do_embedding=...) with force_reembed left at its default
PlaylistCallDefaultStep ==
    \E u \in PlaylistUrls, doEmb \in BOOLEAN, ids \in ResolvedLists :
        PlaylistCall(u, FALSE, doEmb, ids)
\* video_titles holds no title of the video: video_titles.get(video_id, "Unknown Title")
PlaylistInvokeUntitled == PlaylistInvoke(UnknownTitle)

\* one run of process_playlist with the default force_reembed over untitled videos
NextPlaylistFair ==
    \/ PlaylistCallDefaultStep
    \/ PlaylistNext
    \/ PlaylistInvokeUntitled
    \/ Load
    \/ FetchStep
    \/ SaveExtractedStep
    \/ EmbedStep
    \/ SaveEmbeddingsStep
    \/ MarkEmbeddedStep
    \/ Final
    \/ PlaylistCollect

\* process_playlist runs in one thread that nothing stops: the step it stands at is
\* taken, and every call it makes returns
SpecPlaylistFair == Init /\ [][NextPlaylistFair]_vars /\ WF_vars(NextPlaylistFair)

EnterLoopStep == \E text \in QATexts : EnterLoop(text)
ReadQuestionStep == \E in \in Inputs : ReadQuestion(in)
AnswerStep == \E g \in Generations : Answer(g)

\* one session of questions on the transcript of a processed video
NextQA ==
    \/ EnterLoopStep
    \/ ReadQuestionStep
    \/ AnswerStep
    \/ InterruptAnswer

\* the session does not depend on the files: it starts from the empty directory
SpecQA == InitEmpty /\ [][NextQA]_vars

IngestCallStep == \E text \in RagTexts, size \in ChunkSizes : IngestCall(text, size)
CreateChunkStep == \E outcome \in IOOutcomes : CreateChunk(outcome)

\* one call of ingest_text
NextIngest ==
    \/ IngestCallStep
    \/ CreateChunkStep
    \/ IngestReturn

SpecIngest == InitEmpty /\ [][NextIngest]_vars

GetOrCreateCorpusStep ==
    \E name \in DisplayNames, listing \in IOOutcomes, onPage \in BOOLEAN,
       creation \in IOOutcomes :
        GetOrCreateCorpus(name, listing, onPage, creation)
OtherClientCreatesStep == \E name \in AllNames : OtherClientCreates(name)

\* calls of get_or_create_corpus on a service that other clients use too
NextCorpus ==
    \/ GetOrCreateCorpusStep
    \/ OtherClientCreatesStep

SpecCorpus == InitEmpty /\ [][NextCorpus]_vars

----------------------------------------------------------------------------
(* Properties *)

\* the calls of one kind the running invocation has made
FetchCalls == Ops(log, "fetch")
EmbedCalls == Ops(log, "embed")
SaveCalls == Ops(log, "save")
\* the fetcher was called and returned no transcript or an empty one
FetchFailed == \E i \in 1..Len(log) : log[i].op = "fetch" /\ ~TruthyText(log[i].transcript)
\* the embedding was called and failed
EmbedFailed == \E i \in 1..Len(log) : log[i].op = "embed" /\ ~log[i].ok
\* a save of the running invocation wrote the embedded status
EmbeddedWritten ==
    \E i \in 1..Len(log) :
        /\ log[i].op = "save"
        /\ DOMAIN log[i].status_updates \cap {"embedded", "last_embedded"} # {}
\* the files save_transcript has written, all under transcripts/
StoreFiles(fs) == DOMAIN fs \ {LoadFileName(vid) : vid \in VideoIds}
\* the records of file system fs that carry video id vid
RecordsOf(fs, vid) == {name \in DOMAIN fs : fs[name]["video_id"] = vid}
\* the transcripts file system fs stores for video id vid
StoredTranscripts(fs, vid) ==
    {fs[name]["transcript"] :
        name \in {n \in RecordsOf(fs, vid) : "transcript" \in DOMAIN fs[n]}}
\* the value returned reports success to the caller: `if transcript_data and video_id`
ReportsSuccess == TruthyDict(ret.data) /\ ret.id = video_id

\* C1: idempotence of process_video_smart.  When the invocation before this one
\* returned after a successful fetch, successful saves and a successful embedding,
\* and this one has the same URL and title, force_reembed false and do_embedding
\* true, this one calls neither the fetcher nor the embedding client and leaves the
\* persisted records as they were.
C1_Idempotent ==
    ( /\ pc # "idle"
      /\ prev.how = "processed"
      /\ prev.url = url
      /\ prev.video_title = log[1].video_title
      /\ ~force_reembed
      /\ do_embedding )
    => /\ FetchCalls = <<>>
       /\ EmbedCalls = <<>>
       /\ files = files0

\* C2: resume after an interrupt.  When the invocation before this one was
\* interrupted after the save of the fetched transcript and before the embedding
\* call, this invocation for the same video id with do_embedding true finds a record,
\* never calls the fetcher, and has, once it returns, called the embedding client
\* once with a transcript stored for that video.
C2_ResumesAtEmbedding ==
    ( /\ pc \notin {"idle", "load"}
      /\ prev.how = "interrupted"
      /\ ExtractVideoId(prev.url) = video_id
      /\ do_embedding )
    => /\ TruthyDict(existing_data)
       /\ FetchCalls = <<>>
       /\ pc = "done" =>
            /\ Len(EmbedCalls) = 1
            /\ EmbedCalls[1].text \in StoredTranscripts(files0, video_id)

\* C3: round trip of the store.  After save_transcript(video_id, ...) has returned
\* a file name, load_transcript_data(video_id) returns the record that save wrote,
\* whatever the title.
C3_SaveThenLoad ==
    lastSave.filename # None
    => LoadTranscriptData(files, lastSave.video_id, "ok") = files[lastSave.filename]

\* record r holds exactly the transcript, timestamp and status of the merge m
RecordIsMerge(r, m) ==
    /\ Status(r) = m.status
    /\ IF m.fields = EmptyDict
       THEN "transcript" \notin DOMAIN r /\ "timestamp" \notin DOMAIN r
       ELSE /\ Get(r, "transcript", None) = m.fields.transcript
            /\ Get(r, "timestamp", 0) = m.fields.timestamp

\* C4: merge invariant of save_transcript.  After any sequence of successful
\* transcript-only and status-only saves on one video id, a persisted record of that
\* video id equals the field-wise last-write-wins merge of all these calls.
C4_RecordIsMergeOfCalls ==
    \A vid \in VideoIds :
        (merged[vid].calls > 0 /\ merged[vid].partial)
        => \E name \in RecordsOf(files, vid) : RecordIsMerge(files[name], merged[vid])

\* C5: one record per video.  The store never holds two persisted records with the
\* same video_id.
C5_OneRecordPerVideo ==
    \A vid \in VideoIds :
        Cardinality(RecordsOf(files, vid) \cap StoreFiles(files)) <= 1

\* C6: success result.  When process_video_smart is invoked for a video id of which
\* nothing is stored, the fetcher returns a transcript and every save succeeds, the
\* call returns a record together with the video id; the record holds the fetched
\* transcript and transcript_extracted, and embedded when the embedding succeeded.
C6_ReturnsSavedRecord ==
    ( /\ pc = "done"
      /\ RecordsOf(files0, video_id) = {}
      /\ Fetched(log)
      /\ AllSaved(log) )
    => /\ ReportsSuccess
       /\ Get(ret.data, "transcript", None) = transcript
       /\ Flag(Status(ret.data), "transcript_extracted")
       /\ Embedded(log) => Flag(Status(ret.data), "embedded")

\* C7: a failed fetch aborts cleanly.  Once the fetcher has returned no transcript or
\* an empty one, process_video_smart has returned (None, None), after that one
\* fetcher call, without any save or embedding call, and every persisted record is as
\* it was when the invocation began.
C7_FetchFailureAborts ==
    FetchFailed
    => /\ pc = "done"
       /\ ret = Failure
       /\ Len(FetchCalls) = 1
       /\ SaveCalls = <<>>
       /\ EmbedCalls = <<>>
       /\ Ops(log, "save_embeddings") = <<>>
       /\ files = files0

\* a fetch has failed in an invocation that found records of earlier work
C7_Witness ==
    /\ pc = "done"
    /\ FetchFailed
    /\ TruthyDict(existing_data)
    /\ StoreFiles(files0) # {}

\* C8: an embedding failure is a partial success.  When the transcript was obtained
\* and the embedding call failed, no embedded or last_embedded status is written and
\* the call reports success: it returns a record together with the video id.
C8_EmbedFailureReportsSuccess ==
    ( /\ pc = "done"
      /\ EmbedFailed
      /\ AllSaved(log) )
    => /\ ~EmbeddedWritten
       /\ ReportsSuccess
       /\ Flag(Status(ret.data), "transcript_extracted")
       /\ Get(ret.data, "transcript", None) = transcript

\* C9: skipped embedding.  With do_embedding false no embedding call is made and no
\* embedded status is written, and when the transcript is held (stored or fetched)
\* and the saves succeeded the call reports success.
C9_SkipEmbeddingReportsSuccess ==
    ( pc # "idle" /\ Len(log) > 0 /\ ~do_embedding )
    => /\ EmbedCalls = <<>>
       /\ ~EmbeddedWritten
       /\ ( pc = "done" /\ TruthyText(transcript) /\ AllSaved(log) ) => ReportsSuccess

\* C10: forced re-embedding.  With force_reembed and do_embedding true on a record
\* whose transcript_extracted and embedded are true, the fetcher is not called, the
\* embedding client is called once with the stored transcript, and when that call and
\* the save succeed the record that was found holds embedded and a new
\* last_embedded, with its transcript and transcript_extracted unchanged.
C10_ForceReembedUpdatesRecord ==
    ( /\ pc = "done"
      /\ force_reembed /\ do_embedding
      /\ TruthyDict(existing_data)
      /\ Flag(Status(existing_data), "transcript_extracted")
      /\ Flag(Status(existing_data), "embedded") )
    => /\ FetchCalls = <<>>
       /\ Len(EmbedCalls) = 1
       /\ EmbedCalls[1].text = Get(existing_data, "transcript", None)
       /\ ( Embedded(log) /\ AllSaved(log) ) =>
            LET after == LoadTranscriptData(files, video_id, "ok") IN
            /\ Flag(Status(after), "embedded")
            /\ Get(Status(after), "last_embedded", 0)
                  > Get(Status(existing_data), "last_embedded", 0)
            /\ Get(after, "transcript", None) = Get(existing_data, "transcript", None)
            /\ Flag(Status(after), "transcript_extracted")

\* the elements of a list
Range(seq) == {seq[k] : k \in DOMAIN seq}
\* the ids of the playlist whose engine run had the given fetch outcome
IdsWithFetch(outcome) == {runs[k].id : k \in {n \in DOMAIN runs : runs[n].fetch = outcome}}
\* the ids the engine has been invoked and has returned for, in order
RunIds == [k \in DOMAIN runs |-> runs[k].id]

\* C11: playlist isolation.  When process_playlist has returned and every engine run
\* called the fetcher, the engine was invoked once for every resolved id, the
\* processed list holds exactly the ids whose fetch succeeded, the failed list exactly
\* the ids whose fetch failed, and every resolved id is in exactly one of the lists.
C11_PlaylistIsolation ==
    ( /\ pl_pc = "done"
      /\ video_ids # <<>>
      /\ \A k \in DOMAIN runs : runs[k].fetch # "none" )
    => /\ RunIds = video_ids
       /\ Range(processed_videos) = IdsWithFetch("ok")
       /\ Range(failed_videos) = IdsWithFetch("failed")
       /\ Range(processed_videos) \cup Range(failed_videos) = Range(video_ids)
       /\ Range(processed_videos) \cap Range(failed_videos) = {}
       /\ Len(processed_videos) + Len(failed_videos) = Len(video_ids)

\* C12: a playlist video whose embedding fails counts as failed.  With do_embedding
\* true, a video whose fetch succeeded and whose embedding call failed is in the
\* failed list and not in the processed list, and the batch goes on: it returns only
\* after the engine has run for every resolved id.
C12_EmbedFailureIsFailed ==
    /\ \A k \in DOMAIN runs :
        ( pl_args.do_embedding /\ runs[k].fetch = "ok" /\ runs[k].embed = "failed" )
        => /\ runs[k].id \in Range(failed_videos)
           /\ runs[k].id \notin Range(processed_videos)
    /\ pl_pc = "done" => RunIds = video_ids

\* every embedding call that follows a fetch in the running invocation follows a
\* save_transcript call, made after that fetch, that carries the fetched transcript
\* and transcript_extracted
SaveBeforeEmbed ==
    \A f, e \in DOMAIN log :
        ( log[f].op = "fetch" /\ log[e].op = "embed" /\ f < e )
        => \E w \in DOMAIN log :
            /\ f < w /\ w < e
            /\ log[w].op = "save"
            /\ log[w].transcript = log[f].transcript
            /\ Flag(log[w].status_updates, "transcript_extracted")
\* every save of the embedded status follows an embedding call that returned a vector
MarkAfterEmbed ==
    \A w \in DOMAIN log :
        ( log[w].op = "save" /\ "embedded" \in DOMAIN log[w].status_updates )
        => \E e \in DOMAIN log : e < w /\ log[e].op = "embed" /\ log[e].ok
\* the step leaves process_video_smart without a return
Interrupted == pc \notin {"idle", "done"} /\ pc' = "idle"

C14_ExtractedHasTranscript ==
    \A name \in DOMAIN files :
        Flag(Status(files[name]), "transcript_extracted")
        => TruthyText(Get(files[name], "transcript", None))

\* process_video_smart has returned after writing a record with both flags
C14_Witness ==
    /\ pc = "done"
    /\ Len(SaveCalls) = 2
    /\ \E name \in StoreFiles(files) :
        /\ Flag(Status(files[name]), "transcript_extracted")
        /\ Flag(Status(files[name]), "embedded")

\* C15: the embedded flag is earned.  Starting from an empty store, every persisted
\* record whose status.embedded is true carries the transcript that was the input of
\* the successful embedding call: it has a non-empty transcript field.
C15_EmbeddedHasTranscript ==
    \A name \in DOMAIN files :
        Flag(Status(files[name]), "embedded")
        => TruthyText(Get(files[name], "transcript", None))

\* a prompt has been built from transcript_text
PromptBuilt == context # NoContext
\* the context is the first max_context_length characters of the transcript followed
\* by the three characters of the marker
IsTruncation ==
    /\ Len(context) = max_context_length + 3
    /\ \A k \in 1..max_context_length : context[k] = transcript_text[k]
    /\ \A k \in 1..3 : context[max_context_length + k] = "."
\* the transcript is three characters over the budget and ends with the marker itself
EndsWithMarkerAtBudget ==
    /\ Len(transcript_text) = max_context_length + 3
    /\ \A k \in 1..3 : transcript_text[max_context_length + k] = "."

\* C16 as stated: context truncation.  For a transcript of length L and the budget B
\* of 4000, the context placed in the prompt is the transcript unchanged when L <= B,
\* and when L > B it is the first B characters followed by "...", of length B + 3,
\* and never the full transcript.
C16_ContextTruncation ==
    PromptBuilt
    => IF Len(transcript_text) <= max_context_length
       THEN context = transcript_text
       ELSE IsTruncation /\ context # transcript_text

\* C16, amended: as above, but when L > B the context is the full transcript in
\* exactly one case, that of a transcript of B + 3 characters that ends with "...".
C16_ContextTruncationAmended ==
    PromptBuilt
    => IF Len(transcript_text) <= max_context_length
       THEN context = transcript_text
       ELSE IsTruncation /\ (context = transcript_text <=> EndsWithMarkerAtBudget)

\* a prompt was built from the longest transcript of the model
C16_Witness ==
    /\ PromptBuilt
    /\ Len(transcript_text) = max_context_length + MaxOver
    /\ qa_event.generation = "returned"

\* C17: a generation failure never leaves the question loop.  When the generation
\* call has raised, answer_question_with_gemini has returned an error string as the
\* answer and the loop is at its next input(); the loop has ended only on quit, exit
\* or q, on the end of the input or on an interrupt.
C17_GenerationFailureContained ==
    /\ qa_event.generation = "raised" => (answer.kind = "error" /\ qa_pc = "prompt")
    /\ qa_pc = "ended" => qa_event.kind \in {"quit", "eof", "interrupt"}
    /\ qa_event.kind = "quit" => Lower(question) \in QuitWords

\* after an answer that was an error string the loop has read the next question
C17_Witness ==
    /\ answer.kind = "error"
    /\ qa_pc = "answering"
    /\ asked > 1

\* ceil(a / b) for b >= 1
Ceil(a, b) == (a + b - 1) \div b
RECURSIVE Concat(_)
\* the concatenation of a sequence of texts, in order
Concat(texts) == IF texts = <<>> THEN <<>> ELSE Head(texts) \o Concat(Tail(texts))

\* C18: chunking in ingest_text.  For a text of length L and a chunk size C >= 1 the
\* chunks are ceil(L/C) in number, each has at most C characters, they are submitted
\* for creation in their order, their concatenation is the text, and the returned
\* count is ceil(L/C) when every creation succeeded.
C18_Chunking ==
    rag_pc # "idle"
    => /\ Len(chunks) = Ceil(Len(text_content), chunk_size)
       /\ \A k \in DOMAIN chunks : Len(chunks[k]) <= chunk_size
       /\ Concat(chunks) = text_content
       /\ submitted = SubSeq(chunks, 1, Len(submitted))
       /\ rag_pc = "returned" =>
            /\ submitted = chunks
            /\ chunk_errors = 0 => ingest_ret = Ceil(Len(text_content), chunk_size)

\* ingest_text has returned after creating several chunks, the last one a short one
C18_Witness ==
    /\ rag_pc = "returned"
    /\ chunk_errors = 0
    /\ Len(chunks) > 1
    /\ Len(chunks[Len(chunks)]) < chunk_size
    /\ Len(chunks[1]) > 1

\* C19: corpus get-or-create.  The service holds at most one corpus created by this
\* client per display name, and a get_or_create_corpus call issues a create request
\* only when no corpus with that display name exists.
C19_OneCorpusPerName ==
    /\ \A name \in DisplayNames : corpora[Kind(name, "client")] <= 1
    /\ corpus_call.create_requested => ~corpus_call.existed

\* C20: fail fast on a missing credential.  When GOOGLE_API_KEY is not set the program
\* stops before any work: no resolved video id is acted on, the fetcher is not called
\* and no record is written.
C20_NoWorkWithoutKey ==
    ~apiKey
    => /\ Ops(log, "load") = <<>>
       /\ FetchCalls = <<>>
       /\ SaveCalls = <<>>
       /\ StoreFiles(files) = {}

\* the engine is invoked for the videos in the order of video_ids, one after the
\* other: the runs that returned are those of the first videos, and an engine that
\* is running runs for video pl_i, after all earlier ones have returned
InResolverOrder ==
    /\ pl_i <= Len(video_ids)
    /\ RunIds = SubSeq(video_ids, 1, Len(runs))
    /\ Len(runs) = IF pl_pc = "invoke" THEN pl_i - 1 ELSE pl_i
    /\ pc # "idle" =>
        /\ pl_pc = "invoke"
        /\ log[1].url = VideoUrl(video_ids[pl_i], ExtractPlaylistId(pl_args.url))
\* one sleep before every video that has been started, except the first
PacedAfterFirst == sleeps = [k \in 1..(IF pl_i > 1 THEN pl_i - 1 ELSE 0) |-> k + 1]
\* process_playlist has returned from a playlist with videos
PlaylistDone == pl_pc = "done" /\ video_ids # <<>>
\* the model stops following the program where the clock of the model ends
ClockExhausted == now = MaxNow /\ pc \in {"save_transcript", "save_embeddings", "mark_embedded"}

\* C21: order, pacing and termination of process_playlist.  The engine is invoked on
\* the resolved ids in the order of the resolver, each once, the next one only after
\* the one before has returned, with a sleep before every video but the first; a
\* playlist that was started is finished, with n engine runs and n - 1 sleeps.
C21_OrderPacingTermination ==
    /\ [](InResolverOrder /\ PacedAfterFirst)
    /\ [](PlaylistDone =>
            /\ RunIds = video_ids
            /\ Len(sleeps) = Len(video_ids) - 1
            /\ 1 \notin Range(sleeps))
    /\ (pl_pc = "loop") ~> (pl_pc = "done" \/ ClockExhausted)

\* process_playlist has returned from a playlist of three videos
C21_Witness ==
    /\ PlaylistDone
    /\ Len(video_ids) = MaxVideos
    /\ Len(runs) = MaxVideos
    /\ sleeps = <<2, 3>>

\* process_video_smart found a record with status.embedded and without
\* status.transcript_extracted
StaleFound ==
    /\ TruthyDict(existing_data)
    /\ Flag(Status(existing_data), "embedded")
    /\ ~Flag(Status(existing_data), "transcript_extracted")
\* process_video_smart has returned after it found such a record, fetched a
\* transcript and wrote every save it made
StaleReplaced == pc = "done" /\ StaleFound /\ Fetched(log) /\ AllSaved(log)

====
